---- MODULE Spec2Model ----
(***************************************************************************)
(* Model of the 'create' command of pr-commit-ai-agent                     *)
(* (src/src/commands/create.ts): the handler and its four stages, branch   *)
(* resolution, uncommitted-changes handling, commit-message optimization   *)
(* and PR creation/update.  Every awaited call (git, model, gh, prompt) is *)
(* one step; the answers of the environment are nondeterministic.          *)
(*                                                                         *)
(* A path is the sequence of the dot-separated parts of a file name at the *)
(* repository root (<<"pnpm-lock","yaml">> is pnpm-lock.yaml).  A diff     *)
(* text is modelled by the set of paths whose changes it contains.         *)
(***************************************************************************)
EXTENDS Integers, Sequences, FiniteSets, TLC

\* ---------------------------------------------------------------- bounds
MaxParents == 2
\* hashes and operations of the provenance-store specification
MaxHash == 3
MaxNoteOps == 3
\* calls of generateChangeSummary on one LLMService
MaxCalls == 3

\* ------------------------------------------------------------ paths, diffs
PA == <<"a", "ts">>
PLock == <<"pnpm-lock", "yaml">>
PYarn == <<"yarn", "lock">>
PPng == <<"logo", "png">>
PNew == <<"new", "ts">>
Paths == {PA, PLock, PYarn, PPng, PNew}
\* files that git does not track yet: the status lists them under not_added,
\* not under modified
Untracked == {PNew}

ignoredFiles ==
  { <<"pnpm-lock", "yaml">>, <<"yarn", "lock">>,
    <<"package-lock", "json">>, <<"tsconfig", "json">> }

\* pathspec '*.<ext>'
MatchExt(p, ext) == Len(p) >= 2 /\ p[Len(p)] = ext
\* pathspec '*.generated.*'
MatchGenerated(p) == \E i \in 2..(Len(p) - 1) : p[i] = "generated"
\* pathspec 'tsconfig.*.json'
MatchTsconfigAny(p) == Len(p) >= 3 /\ p[1] = "tsconfig" /\ p[Len(p)] = "json"

\* status.modified.filter((e) => e && !ignoredFiles.includes(e))
ModifiedFiles(modified) == { p \in modified : p \notin ignoredFiles }

\* the exclude pathspecs of the optimizer's git.diff / git.show
OptimizeExcluded(p) ==
  \/ p \in ignoredFiles
  \/ MatchGenerated(p)
  \/ MatchExt(p, "lock")
  \/ p = <<"tsconfig", "json">>
  \/ MatchTsconfigAny(p)
  \/ MatchExt(p, "svg") \/ MatchExt(p, "png")
  \/ MatchExt(p, "jpg") \/ MatchExt(p, "jpeg")
OptimizeDiff(ps) == { p \in ps : ~OptimizeExcluded(p) }

\* the exclude pathspecs of the git.show of the PR description update
UpdateExcluded(p) ==
  p \in ignoredFiles \/ MatchGenerated(p) \/ MatchExt(p, "lock")
UpdateDiff(ps) == { p \in ps : ~UpdateExcluded(p) }

\* git.diff([upstreamBranch, 'HEAD']) of the new-PR path: no pathspec at all
PrDiff(ps) == ps

\* ------------------------------------------------------- commits and notes
NoCommit == [hash |-> 0, msg |-> "", parents |-> 0, tree |-> {}]

\* union of the changes of the commits of upstream..HEAD
RECURSIVE RangeTree(_)
RangeTree(cs) == IF cs = <<>> THEN {} ELSE Head(cs).tree \cup RangeTree(Tail(cs))

\* git rev-list --parents -n 1 <hash>: the hash followed by its parents,
\* split(' ') of the trimmed output
ParentHashes(c) == [i \in 1..(1 + c.parents) |-> IF i = 1 THEN c.hash ELSE 0]

IsMergeOffByOne(parentHashes) == Len(parentHashes) > 3
\* if (parentHashes.length > 2)
IsMerge(parentHashes) == Len(parentHashes) > 2

NotesNeverIncludes(notesOut) == FALSE
\* notes.includes(PR_AGENT_NOTE_MESSAGE); a failed read yields ''
NotesIncludeMarker(notesOut) == notesOut = "created-by-pr-agent"

\* --------------------------------------------------------- model responses
\* The text of a completion: valid says whether JSON.parse succeeds, kind is
\* the type of the parsed value, the other fields are the members of a
\* parsed object ("absent" when the member is missing).
Present == {"absent", "empty", "text"}
AnalysisTexts ==
  { [valid |-> FALSE, kind |-> "none", ni |-> "absent", msg |-> "absent"],
    [valid |-> TRUE, kind |-> "null", ni |-> "absent", msg |-> "absent"],
    [valid |-> TRUE, kind |-> "array", ni |-> "absent", msg |-> "absent"],
    [valid |-> TRUE, kind |-> "object", ni |-> "absent", msg |-> "absent"],
    [valid |-> TRUE, kind |-> "object", ni |-> "false", msg |-> "absent"] }
  \cup [valid : {TRUE}, kind : {"object"}, ni : {"true"}, msg : Present]
NoAnalysis == [valid |-> FALSE, kind |-> "none", ni |-> "absent", msg |-> "absent"]

\* JSON.parse throws
ParseThrows(t) == ~t.valid
\* !analysis || typeof analysis !== 'object'   (typeof [] is 'object')
NotAnObject(t) == t.kind \notin {"object", "array"}
\* truthiness of a member of the parsed value
Truthy(v) == v = "text" \/ v = "true"
\* the string git receives for '-m', analysis.improvedCommitMessage
MessageArg(v) ==
  IF v = "text" THEN "ai-improved" ELSE IF v = "empty" THEN "" ELSE "undefined"

\* ------------------------------------------------------------------ state
NoBranch == [remote |-> "", name |-> ""]
Local(n) == [remote |-> "", name |-> n]
OriginMain == [remote |-> "origin", name |-> "main"]
UpstreamMain == [remote |-> "upstream", name |-> "main"]
OriginFeat == [remote |-> "origin", name |-> "feat"]
\* the answers of git rev-parse --abbrev-ref --symbolic-full-name @{u}
TrackingAnswers == {NoBranch, UpstreamMain, OriginFeat}
\* the answers of git branch --remotes: entries, alias marks 'HEAD ->' lines
Entry(b, a) == [branch |-> b, alias |-> a]
RemoteLists ==
  { {}, {Entry(OriginMain, TRUE)},
    {Entry(OriginMain, TRUE), Entry(OriginMain, FALSE)} }

VARIABLES
  pc,              \* position of the handler
  exit,            \* "" while running, then "return", "complete" or "exit0"
  yes, prOpt,      \* argv.yes, argv.pr
  index, worktree, \* paths with staged / unstaged changes
  commits,         \* upstream..HEAD, newest first
  headMsg,         \* message of HEAD
  notes,           \* hashes with a note in refs/notes/pr-agent
  nextHash,        \* the hash the next created commit gets
  curBranch, localBranches,
  commitsOptimizedInSession, commitsCreatedInSession,
  status,          \* the StatusResult read by the handler
  upstreamBranch,
  loc,             \* locals of the stage that is running
  analysisSeen,    \* the answer the analysis request received, if any
  prDataSeen,      \* the answer the PR-details request received, if any
  trace,           \* the operations performed so far, in order (prompts
                   \* and read-only git calls are not kept)
  inFlight,        \* operations started without await and not yet settled
  config           \* config.llm of an LLMService (services/llm.service.ts)

vars == <<pc, exit, yes, prOpt, index, worktree, commits, headMsg, notes,
          nextHash, curBranch, localBranches, commitsOptimizedInSession,
          commitsCreatedInSession, status, upstreamBranch, loc,
          analysisSeen, prDataSeen, trace, inFlight, config>>

optsV == <<yes, prOpt>>
keepV == <<yes, prOpt, analysisSeen, prDataSeen>>
repoV == <<index, worktree, commits, headMsg, notes, nextHash, curBranch,
           localBranches>>
sessV == <<commitsOptimizedInSession, commitsCreatedInSession>>

Op(o, s, n, ps) == [op |-> o, s |-> s, n |-> n, paths |-> ps]

\* the create command builds no LLMService
NoConfig == [provider |-> "", endpoint |-> FALSE]
NoStatus == [read |-> FALSE, modified |-> {}, clean |-> TRUE]
NoPrData == [valid |-> FALSE, kind |-> "none", branch |-> "", title |-> "absent",
             description |-> "absent"]
NoLoc ==
  [ tempModified |-> {}, lastCommit |-> NoCommit, fullDiff |-> {},
    commitDiff |-> {}, analysis |-> NoAnalysis, commitMessage |-> "absent",
    existingPR |-> 0, prData |-> NoPrData, branchToPush |-> "",
    hasNewCommits |-> FALSE, ghReady |-> FALSE, recentChanges |-> {},
    priorContext |-> {}, existingBranchNames |-> {} ]

InitCommits ==
  {<<>>} \cup
  { <<[hash |-> 1, msg |-> "orig", parents |-> n, tree |-> {PA, PLock}]>> :
      n \in 1..MaxParents }
\* unstaged and staged changes when the command starts
InitChanges ==
  { <<{}, {}>>, <<{PA, PLock, PPng, PNew}, {}>>, <<{PLock}, {}>>,
    <<{}, {PYarn}>> }

Init ==
  /\ pc = "ready"
  /\ exit = ""
  /\ yes \in BOOLEAN
  /\ prOpt \in BOOLEAN
  /\ \E ch \in InitChanges : worktree = ch[1] /\ index = ch[2]
  /\ commits \in InitCommits
  /\ headMsg = IF commits = <<>> THEN "base" ELSE "orig"
  /\ notes \in IF commits = <<>> THEN {{}} ELSE {{}, {1}}
  /\ nextHash = 2
  /\ curBranch \in {"main", "feat"}
  /\ localBranches = {"main", "feat"}
  /\ commitsOptimizedInSession = FALSE
  /\ commitsCreatedInSession = FALSE
  /\ status = NoStatus
  /\ upstreamBranch = NoBranch
  /\ loc = NoLoc
  /\ analysisSeen = NoAnalysis
  /\ prDataSeen = NoPrData
  /\ trace = <<>>
  /\ inFlight = {}
  /\ config = NoConfig

\* ---------------------------------------------------------------- helpers
\* globalConfirm: with --yes every confirmation is answered true
Answers == IF yes THEN {TRUE} ELSE BOOLEAN

Recorded(o) == o.op \notin {"confirm", "git"}
Keep(ops) == SelectSeq(ops, Recorded)

\* continue at p with the locals l; the locals of a function that returned
\* are gone
Go(p, ops, l) ==
  /\ pc' = p /\ trace' = trace \o Keep(ops) /\ exit' = exit /\ loc' = l
  /\ inFlight' = inFlight /\ config' = config
Stop(how, ops) ==
  /\ pc' = "done" /\ exit' = how /\ trace' = trace \o Keep(ops) /\ loc' = NoLoc
  /\ inFlight' = inFlight /\ config' = config

Prompt(q) == Op("confirm", q, 0, {})
CompletionRetried(kind, n) == <<Op("llm", kind, n, {}), Op("llm", kind, n, {})>>
\* one await generateCompletion(provider, {...}) of the call site `kind`
Completion(kind, n) == <<Op("llm", kind, n, {})>>
Begin(stage) == Op("begin", stage, 0, {})
End(stage) == Op("end", stage, 0, {})
Throw(stage) == Op("throw", stage, 0, {})

\* ---------------------------------------------------------------- handler
\* const ready = await globalConfirm('Are you ready ...'); if (!ready) return
Ready ==
  /\ pc = "ready"
  /\ \E a \in Answers :
       IF a THEN Go("status", <<Prompt("ready")>>, loc)
            ELSE Stop("return", <<Prompt("ready")>>)
  /\ UNCHANGED <<keepV, repoV, sessV, status, upstreamBranch>>

\* StatusResult.modified: the tracked paths with staged or unstaged changes
StatusModified(idx, wt) == (idx \cup wt) \ Untracked

\* const status = await performGitOperation(() => git.status(), ...)
ReadStatus ==
  /\ pc = "status"
  /\ \E ok \in BOOLEAN :
       IF ok
       THEN /\ status' = [read |-> TRUE,
                          modified |-> StatusModified(index, worktree),
                          clean |-> index = {} /\ worktree = {}]
            /\ Go("gate_branch", <<Op("git", "status", 0, {})>>, loc)
       ELSE /\ status' = status
            /\ Stop("return", <<Op("git", "status", 0, {})>>)
  /\ UNCHANGED <<keepV, repoV, sessV, upstreamBranch>>

\* 'Would you like to proceed with determining the target branch?'
GateBranch ==
  /\ pc = "gate_branch"
  /\ \E a \in Answers :
       IF a THEN Go("br_info", <<Prompt("proceed-branch"), Begin("branch")>>, loc)
            ELSE Stop("return", <<Prompt("proceed-branch")>>)
  /\ UNCHANGED <<keepV, repoV, sessV, status, upstreamBranch>>

\* the handler once upstreamBranch is known: if (!status.isClean()) the gate
\* of the uncommitted-changes stage, else the call of the optimizer
AfterBranch(st) == IF ~st.clean THEN "gate_changes" ELSE "opt_log"
AfterBranchOps(st) ==
  IF ~st.clean THEN <<End("branch")>> ELSE <<End("branch"), Begin("optimize")>>

\* throw new Error(msg) inside getUpstreamBranch
Err(msg) == Op("error", msg, 0, {})
BranchFailedContinues(ops) ==
  Go(AfterBranch(status), ops \o <<Throw("branch")>> \o AfterBranchOps(status),
     NoLoc)
\* getUpstreamBranch threw: performGitOperation answers null and the handler
\* does if (!upstreamBranch) return
BranchFailed(ops) == Stop("return", ops \o <<Throw("branch")>>)

\* getUpstreamBranch: branchInfo = await git.branch()
BranchInfo ==
  /\ pc = "br_info"
  /\ \E ok \in BOOLEAN :
       IF ok THEN Go("br_track", <<Op("git", "branch", 0, {})>>, loc)
             ELSE BranchFailed(<<Op("git", "branch", 0, {}),
                                Err("Could not determine current branch")>>)
  /\ UNCHANGED <<keepV, repoV, sessV, status, upstreamBranch>>

\* trackingBranch = await git.revparse([... '@{u}']).catch(() => null);
\* if found, confirm 'Use "<tracking>" as the target branch?'
BranchTracking ==
  /\ pc = "br_track"
  /\ \E t \in TrackingAnswers :
       IF t # NoBranch
       THEN \E a \in Answers :
              IF a
              THEN /\ upstreamBranch' = t
                   /\ Go(AfterBranch(status),
                         <<Op("git", "revparse-upstream", 0, {}),
                           Prompt("use-tracking")>> \o AfterBranchOps(status),
                         NoLoc)
              ELSE /\ upstreamBranch' = upstreamBranch
                   /\ Go("br_remotes", <<Op("git", "revparse-upstream", 0, {}),
                                         Prompt("use-tracking")>>, loc)
       ELSE /\ upstreamBranch' = upstreamBranch
            /\ Go("br_remotes", <<Op("git", "revparse-upstream", 0, {})>>, loc)
  /\ UNCHANGED <<keepV, repoV, sessV, status>>

\* remoteBranches.all.filter((branch) => branch && !branch.includes('HEAD ->'))
FilterRemotes(all) == { e.branch : e \in { x \in all : ~x.alias } }

\* the user's answer to 'Confirm "<target>" as your target branch?'
TargetAnswer(a) == Op("target-gate", IF a THEN "accept" ELSE "decline", 0, {})
ConfirmSelectedIgnored(a) == TRUE
\* if (!confirmSelected) { ...; process.exit(0); }
ConfirmSelected(a) == a

\* git.branch(['--remotes']), the filter, the select prompt (which --yes does
\* not answer) and 'Confirm "<target>" as your target branch?'
BranchSelect ==
  /\ pc = "br_remotes"
  /\ \E ok \in BOOLEAN, all \in RemoteLists :
       LET branches == FilterRemotes(all)
           read == <<Op("git", "branch-remotes", 0, {})>>
           select == <<Op("select", "target", 0, {})>>
       IN
       IF ~ok
       THEN /\ upstreamBranch' = upstreamBranch
            /\ BranchFailed(read \o <<Err("Could not retrieve remote branches")>>)
       ELSE IF branches = {}
       THEN /\ upstreamBranch' = upstreamBranch
            /\ BranchFailed(read \o <<Err("No remote branches found")>>)
       ELSE \E sel \in branches \cup {NoBranch} :
              IF sel = NoBranch
              THEN /\ upstreamBranch' = upstreamBranch
                   /\ BranchFailed(read \o select \o <<Err("No branch selected")>>)
              ELSE \E a \in Answers :
                     IF ConfirmSelected(a)
                     THEN /\ upstreamBranch' = sel
                          /\ Go(AfterBranch(status),
                                read \o select \o <<Prompt("confirm-target"),
                                                     TargetAnswer(a)>>
                                     \o AfterBranchOps(status), NoLoc)
                     ELSE /\ upstreamBranch' = upstreamBranch
                          /\ Stop("exit0",
                                  read \o select \o <<Prompt("confirm-target"),
                                                       TargetAnswer(a)>>)
  /\ UNCHANGED <<keepV, repoV, sessV, status>>

\* ---------------------------------------------- uncommitted-changes stage
CommitTexts ==
  { [valid |-> FALSE, kind |-> "none", commitMessage |-> "absent"],
    [valid |-> TRUE, kind |-> "null", commitMessage |-> "absent"] }
  \cup [valid : {TRUE}, kind : {"object"}, commitMessage : Present]

ToOptimizeUnawaited == <<Begin("optimize"), End("uncommitted")>>
\* the handler's call of the optimizer, after the uncommitted-changes stage
ToOptimize == <<End("uncommitted"), Begin("optimize")>>

\* logger.info of a cancellation, after the question that was declined
Cancel(q) == Op("cancel", q, 0, {})
SoftCancel(q) == Go("opt_log", <<Prompt(q), Cancel(q)>> \o ToOptimize, NoLoc)
\* a declined confirmation inside handleUncommittedChanges: the cancellation
\* is logged and process.exit(0) ends the run
HardCancel(q) == Stop("exit0", <<Prompt(q), Cancel(q)>>)

FatalIsSoft(ops) ==
  Go("opt_log", ops \o <<Throw("uncommitted")>> \o ToOptimize, NoLoc)
\* the catch around the parse, the confirmation, git add and git commit:
\* logger.error('Failed to parse LLM response as JSON ...'); process.exit(0)
Fatal(ops) == Stop("exit0", ops \o <<Op("fatal", "uncommitted", 0, {})>>)

\* 'Would you like to commit your uncommitted changes?'
GateChanges ==
  /\ pc = "gate_changes"
  /\ \E a \in Answers :
       IF a THEN Go("uc_analyze",
                    <<Prompt("commit-changes"), Begin("uncommitted")>>, loc)
            ELSE Stop("return", <<Prompt("commit-changes"),
                                  Cancel("commit-changes")>>)
  /\ UNCHANGED <<keepV, repoV, sessV, status, upstreamBranch>>

\* 'Analyze changes with AI ...?', then the filter of status.modified
UcAnalyze ==
  /\ pc = "uc_analyze"
  /\ \E a \in Answers :
       IF ~a THEN HardCancel("analyze")
       ELSE IF ModifiedFiles(status.modified) = {}
            THEN Go("opt_log", <<Prompt("analyze")>> \o ToOptimize, NoLoc)
            ELSE Go("uc_diffs", <<Prompt("analyze")>>, loc)
  /\ UNCHANGED <<keepV, repoV, sessV, status, upstreamBranch>>

\* for (const file of modifiedFiles): staged + unstaged diff of the file; a
\* file whose diff fails is skipped
UcDiffs ==
  /\ pc = "uc_diffs"
  /\ \E failed \in SUBSET ModifiedFiles(status.modified) :
       Go("uc_confirm_ai",
          <<Op("git", "diff-files", 0, ModifiedFiles(status.modified))>>,
          [loc EXCEPT !.tempModified = ModifiedFiles(status.modified) \ failed])
  /\ UNCHANGED <<keepV, repoV, sessV, status, upstreamBranch>>

\* 'Send changes to AI for commit message suggestion?'
UcConfirmAi ==
  /\ pc = "uc_confirm_ai"
  /\ \E a \in Answers :
       IF ~a THEN HardCancel("send-to-ai")
       ELSE IF loc.tempModified = {}
            THEN Go("opt_log", <<Prompt("send-to-ai")>> \o ToOptimize, NoLoc)
            ELSE Go("uc_llm", <<Prompt("send-to-ai")>>, loc)
  /\ UNCHANGED <<keepV, repoV, sessV, status, upstreamBranch>>

\* commitData = JSON.parse(res.text); if (!commitData.commitMessage) throw
CommitDataBad(t) ==
  ParseThrows(t) \/ t.kind = "null" \/ ~Truthy(t.commitMessage)

\* the paths whose changes the prompt about to be sent embeds, by call site
PromptPaths ==
  CASE pc = "uc_llm" -> loc.tempModified
    [] pc = "opt_llm" -> loc.commitDiff \cup loc.fullDiff
    [] pc = "pr_upd_llm" -> loc.recentChanges
    [] pc = "pr_llm" -> loc.fullDiff
    [] OTHER -> {}

\* generateCompletion with the commit prompt and the parse of its answer; an
\* error of the provider leaves the stage, a bad answer ends the process
UcLlm ==
  /\ pc = "uc_llm"
  /\ LET call == Completion("commit-message", 0) IN
     \/ Go("opt_log", call \o <<Throw("uncommitted")>> \o ToOptimize, NoLoc)
     \/ \E t \in CommitTexts :
          IF CommitDataBad(t)
          THEN Fatal(call)
          ELSE Go("uc_confirm_commit", call,
                  [loc EXCEPT !.commitMessage = t.commitMessage])
  /\ UNCHANGED <<keepV, repoV, sessV, status, upstreamBranch>>

\* 'Proceed with this commit?'
UcConfirmCommit ==
  /\ pc = "uc_confirm_commit"
  /\ \E a \in Answers :
       IF a THEN Go("uc_add", <<Prompt("proceed-commit")>>, loc)
            ELSE HardCancel("proceed-commit")
  /\ UNCHANGED <<keepV, repoV, sessV, status, upstreamBranch>>

AddEligible(idx, wt) == idx \cup ModifiedFiles(wt)
\* the index after git add '.': every change of the working tree is staged
AddAll(idx, wt) == idx \cup wt

\* await git.add('.')
UcAdd ==
  /\ pc = "uc_add"
  /\ \E ok \in BOOLEAN :
       IF ok
       THEN /\ index' = AddAll(index, worktree)
            /\ worktree' = worktree \ AddAll(index, worktree)
            /\ Go("uc_commit", <<Op("add", "", 0, AddAll(index, worktree))>>, loc)
       ELSE /\ UNCHANGED <<index, worktree>>
            /\ Fatal(<<Op("add", "failed", 0, {})>>)
  /\ UNCHANGED <<keepV, commits, headMsg, notes, nextHash, curBranch,
                 localBranches, sessV, status, upstreamBranch>>

\* the commit git.commit(message) creates from the index
NewCommit(h, idx) == [hash |-> h, msg |-> "ai-commit", parents |-> 1, tree |-> idx]

\* await git.commit(commitData.commitMessage)
UcCommit ==
  /\ pc = "uc_commit"
  /\ \E ok \in BOOLEAN :
       IF ok
       THEN /\ commits' = <<NewCommit(nextHash, index)>> \o commits
            /\ headMsg' = "ai-commit"
            /\ index' = {}
            /\ nextHash' = nextHash + 1
            /\ Go("uc_mark", <<Op("commit", "ai-commit", nextHash, index)>>,
                  [loc EXCEPT !.lastCommit = NewCommit(nextHash, index)])
       ELSE /\ UNCHANGED <<commits, headMsg, index, nextHash>>
            /\ Fatal(<<Op("commit", "failed", 0, {})>>)
  /\ UNCHANGED <<keepV, worktree, notes, curBranch, localBranches, sessV,
                 status, upstreamBranch>>

MarkNoop(ns, h, ok) == ns
\* markCommitAsCreatedByTool: git notes --ref pr-agent add -m <marker> <hash>;
\* a failure is caught and only logged
Mark(ns, h, ok) == IF ok THEN ns \cup {h} ELSE ns
NotesAdd(h, ok) == Op("notes-add", IF ok THEN "ok" ELSE "failed", h, {})
MarkOpsRethrow(h, ok) ==
  IF ok THEN <<NotesAdd(h, ok)>> ELSE <<NotesAdd(h, ok), Throw("mark")>>
\* what a call of markCommitAsCreatedByTool does as seen by its caller: the
\* catch logs the error and the function returns
MarkOps(h, ok) == <<NotesAdd(h, ok)>>

\* await markCommitAsCreatedByTool(git, commitResult.commit);
\* commitsCreatedInSession = true
UcMark ==
  /\ pc = "uc_mark"
  /\ \E ok \in BOOLEAN :
       /\ notes' = Mark(notes, loc.lastCommit.hash, ok)
       /\ Go("opt_log", MarkOps(loc.lastCommit.hash, ok) \o ToOptimize, NoLoc)
  /\ commitsCreatedInSession' = TRUE
  /\ UNCHANGED <<keepV, index, worktree, commits, headMsg, nextHash, curBranch,
                 localBranches, commitsOptimizedInSession, status,
                 upstreamBranch>>

\* ------------------------------------------------------ optimization stage
LeaveEndsRun(ops) == Stop("return", ops)
LeaveReenters(ops) == Go("gate_changes", ops \o <<End("optimize")>>, NoLoc)
LeaveToPrGate(ops) == Go("pr_gate", ops \o <<End("optimize")>>, NoLoc)
\* the optimizer returned or threw (performGitOperation catches the error):
\* if (!argv?.pr) return; otherwise the PR gate follows
Leave(ops) ==
  IF prOpt THEN Go("pr_gate", ops \o <<End("optimize")>>, NoLoc)
           ELSE Stop("complete", ops \o <<End("optimize")>>)
Skip(reason) == Op("skip", reason, 0, {})

\* commits = await git.log({from: upstreamBranch, to: 'HEAD'})
OptLog ==
  /\ pc = "opt_log"
  /\ \E ok \in BOOLEAN :
       LET read == <<Op("git", "log-range", 0, {})>> IN
       IF ~ok THEN Leave(read \o <<Throw("optimize")>>)
       ELSE IF commits = <<>> THEN Leave(read \o <<Skip("no-commits")>>)
       ELSE Go("opt_gate", read, loc)
  /\ UNCHANGED <<keepV, repoV, sessV, status, upstreamBranch>>

\* 'Would you like to optimize your commit messages?';
\* lastCommit = commits.all[0]
OptGate ==
  /\ pc = "opt_gate"
  /\ \E a \in Answers :
       IF a THEN Go("opt_notes", <<Prompt("optimize")>>,
                    [loc EXCEPT !.lastCommit = Head(commits)])
            ELSE Leave(<<Prompt("optimize"), Skip("user")>>)
  /\ UNCHANGED <<keepV, repoV, sessV, status, upstreamBranch>>

NotesShowAnyNote(ns, h, readOk) ==
  IF readOk /\ ns # {} THEN "created-by-pr-agent" ELSE ""
\* git notes --ref pr-agent show <hash>, with .catch(() => '')
NotesShow(ns, h, readOk) ==
  IF readOk /\ h \in ns THEN "created-by-pr-agent" ELSE ""

IsToolCommitWhenUnreadable(ns, h, readOk) == ~readOk \/ h \in ns
\* isCommitCreatedByTool: false for an empty hash, else whether the note that
\* could be read includes the marker
isCommitCreatedByTool(ns, h, readOk) ==
  h # NoCommit.hash /\ NotesIncludeMarker(NotesShow(ns, h, readOk))

\* isToolCommit = await isCommitCreatedByTool(git, lastCommit.hash)
OptNotes ==
  /\ pc = "opt_notes"
  /\ \E readOk \in BOOLEAN :
       LET read == <<Op("notes-show",
                        NotesShow(notes, loc.lastCommit.hash, readOk),
                        loc.lastCommit.hash, {})>> IN
       IF isCommitCreatedByTool(notes, loc.lastCommit.hash, readOk)
       THEN Leave(read \o <<Skip("already-processed")>>)
       ELSE Go("opt_revlist", read, loc)
  /\ UNCHANGED <<keepV, repoV, sessV, status, upstreamBranch>>

\* revList = await git.raw(['rev-list', '--parents', '-n', '1', hash])
OptRevList ==
  /\ pc = "opt_revlist"
  /\ \E out \in {"ok", "empty", "fail"} :
       LET read == <<Op("git", "rev-list", 0, {})>> IN
       IF out = "fail" THEN Leave(read \o <<Throw("optimize")>>)
       ELSE IF out = "empty" THEN Leave(read)
       ELSE IF IsMerge(ParentHashes(loc.lastCommit))
            THEN Leave(read \o <<Skip("merge")>>)
            ELSE Go("opt_continue", read, loc)
  /\ UNCHANGED <<keepV, repoV, sessV, status, upstreamBranch>>

\* 'Continue with commit message optimization?'
OptContinue ==
  /\ pc = "opt_continue"
  /\ \E a \in Answers :
       IF a THEN Go("opt_diffs", <<Prompt("continue-optimize")>>, loc)
            ELSE Leave(<<Prompt("continue-optimize"), Skip("user")>>)
  /\ UNCHANGED <<keepV, repoV, sessV, status, upstreamBranch>>

\* fullDiff = await git.diff([... upstreamBranch, 'HEAD', excludes]);
\* commitDiff = await git.show([... lastCommit.hash, excludes]), a failure of
\* which only replaces the text by a placeholder
OptDiffs ==
  /\ pc = "opt_diffs"
  /\ \E fullOk \in BOOLEAN, showOk \in BOOLEAN :
       IF ~fullOk
       THEN Leave(<<Op("git", "diff-range", 0, {}), Throw("optimize")>>)
       ELSE Go("opt_llm",
               <<Op("git", "diff-range", 0, {}), Op("git", "show", 0, {})>>,
               [loc EXCEPT
                  !.fullDiff = OptimizeDiff(RangeTree(commits)),
                  !.commitDiff = IF showOk THEN OptimizeDiff(loc.lastCommit.tree)
                                           ELSE {}])
  /\ UNCHANGED <<keepV, repoV, sessV, status, upstreamBranch>>

\* if (analysis.needsImprovement)
NeedsImprovement(t) == Truthy(t.ni)

\* JSON.parse(res.text) throws, or !analysis || typeof analysis !== 'object'
AnalysisRejected(t) == ParseThrows(t) \/ NotAnObject(t)

\* generateCompletion with the analysis prompt; JSON.parse, the object check
\* and the branch on analysis.needsImprovement
OptLlm ==
  /\ pc = "opt_llm"
  /\ LET call == Completion("improvement-analysis", loc.lastCommit.hash) IN
     \/ /\ Leave(call \o <<Throw("optimize")>>)
        /\ analysisSeen' = analysisSeen
     \/ \E t \in AnalysisTexts :
          /\ analysisSeen' = [t EXCEPT !.kind = IF t.valid THEN t.kind ELSE "invalid"]
          /\ IF AnalysisRejected(t)
             THEN Leave(call \o <<Throw("optimize")>>)
             ELSE IF NeedsImprovement(t)
                  THEN Go("opt_amend_confirm", call, [loc EXCEPT !.analysis = t])
                  ELSE Go("opt_mark_last", call, [loc EXCEPT !.analysis = t])
  /\ UNCHANGED <<optsV, prDataSeen, repoV, sessV, status, upstreamBranch>>

AmendAnswer(a) == Op("amend-gate", IF a THEN "accept" ELSE "decline", 0, {})

AmendGateOpen(a) == TRUE
\* if (amendConfirm)
AmendGate(a) == a

\* 'Amend commit <hash> with the improved message?'
OptAmendConfirm ==
  /\ pc = "opt_amend_confirm"
  /\ \E a \in Answers :
       IF AmendGate(a)
       THEN Go("opt_amend", <<Prompt("amend"), AmendAnswer(a)>>, loc)
       ELSE Leave(<<Prompt("amend"), AmendAnswer(a), Skip("user")>>)
  /\ UNCHANGED <<keepV, repoV, sessV, status, upstreamBranch>>

\* git commit --amend -m <msg>: the commit that replaces HEAD takes the new
\* message and the content of the index
Amended(c, h, m, idx) ==
  [hash |-> h, msg |-> m, parents |-> c.parents, tree |-> c.tree \cup idx]

\* await git.raw(['commit', '--amend', '-m', analysis.improvedCommitMessage]);
\* git refuses an empty message
OptAmend ==
  /\ pc = "opt_amend"
  /\ LET m == MessageArg(loc.analysis.msg) IN
     \E ok \in (IF m = "" THEN {FALSE} ELSE BOOLEAN) :
       IF ok
       THEN /\ commits' = <<Amended(Head(commits), nextHash, m, index)>>
                            \o Tail(commits)
            /\ headMsg' = m
            /\ index' = {}
            /\ nextHash' = nextHash + 1
            /\ Go("opt_mark_head", <<Op("amend", m, nextHash, index)>>, loc)
       ELSE /\ UNCHANGED <<commits, headMsg, index, nextHash>>
            /\ Leave(<<Op("amend", m, 0, {}), Throw("optimize")>>)
  /\ UNCHANGED <<keepV, worktree, notes, curBranch, localBranches, sessV,
                 status, upstreamBranch>>

\* await markCommitAsCreatedByTool(git, 'HEAD');
\* commitsOptimizedInSession = true
OptMarkHead ==
  /\ pc = "opt_mark_head"
  /\ \E ok \in BOOLEAN :
       /\ notes' = Mark(notes, Head(commits).hash, ok)
       /\ Leave(MarkOps(Head(commits).hash, ok))
  /\ commitsOptimizedInSession' = TRUE
  /\ UNCHANGED <<keepV, index, worktree, commits, headMsg, nextHash, curBranch,
                 localBranches, commitsCreatedInSession, status,
                 upstreamBranch>>

OptimizedOnlyWhenAmended == FALSE
\* commitsOptimizedInSession = true, in the branch without an amend
OptimizedWhenUnchanged == TRUE

\* else-branch: await markCommitAsCreatedByTool(git, lastCommit.hash);
\* commitsOptimizedInSession = true
OptMarkLast ==
  /\ pc = "opt_mark_last"
  /\ \E ok \in BOOLEAN :
       /\ notes' = Mark(notes, loc.lastCommit.hash, ok)
       /\ Leave(MarkOps(loc.lastCommit.hash, ok) \o <<Skip("model")>>)
  /\ commitsOptimizedInSession' = OptimizedWhenUnchanged
  /\ UNCHANGED <<keepV, index, worktree, commits, headMsg, nextHash, curBranch,
                 localBranches, commitsCreatedInSession, status,
                 upstreamBranch>>

\* ---------------------------------------------------------------- PR stage
PrNumber == 7
UpdateTexts ==
  { [valid |-> FALSE, kind |-> "none", updatedTitle |-> "absent",
     updatedDescription |-> "absent"],
    [valid |-> TRUE, kind |-> "null", updatedTitle |-> "absent",
     updatedDescription |-> "absent"],
    [valid |-> TRUE, kind |-> "object", updatedTitle |-> "text",
     updatedDescription |-> "text"],
    [valid |-> TRUE, kind |-> "object", updatedTitle |-> "absent",
     updatedDescription |-> "text"],
    [valid |-> TRUE, kind |-> "object", updatedTitle |-> "text",
     updatedDescription |-> "empty"] }
PrTexts ==
  { NoPrData,
    [valid |-> TRUE, kind |-> "number", branch |-> "", title |-> "absent",
     description |-> "absent"],
    [valid |-> TRUE, kind |-> "object", branch |-> "ai-branch", title |-> "text",
     description |-> "text"],
    [valid |-> TRUE, kind |-> "object", branch |-> "feat", title |-> "text",
     description |-> "text"],
    [valid |-> TRUE, kind |-> "object", branch |-> "", title |-> "text",
     description |-> "text"],
    [valid |-> TRUE, kind |-> "object", branch |-> "ai-branch", title |-> "absent",
     description |-> "text"],
    [valid |-> TRUE, kind |-> "object", branch |-> "ai-branch", title |-> "text",
     description |-> "empty"] }

\* createAndPushPR returned or threw: the handler ends
PrEnd(ops) == Stop("complete", ops \o <<End("pr")>>)
Manual == Op("manual", "instructions", 0, {})

\* 'Would you like to proceed with creating a PR?'
PrGate ==
  /\ pc = "pr_gate"
  /\ \E a \in Answers :
       IF a THEN Go("pr_read", <<Prompt("proceed-pr"), Begin("pr")>>, loc)
            ELSE Stop("return", <<Prompt("proceed-pr")>>)
  /\ UNCHANGED <<keepV, repoV, sessV, status, upstreamBranch>>

\* git.log(['-1']), git.branch() and checkForExistingPR(currentBranch), which
\* answers null when gh is missing or lists no open PR
PrRead ==
  /\ pc = "pr_read"
  /\ \E ok \in BOOLEAN, found \in BOOLEAN :
       LET read == <<Op("git", "log-1", 0, {}), Op("git", "branch", 0, {})>> IN
       IF ~ok THEN PrEnd(read \o <<Throw("pr")>>)
       ELSE IF found
            THEN Go("pr_update_confirm", read \o <<Op("gh", "pr-list", PrNumber, {})>>,
                    [loc EXCEPT !.existingPR = PrNumber])
            ELSE Go("pr_gen_confirm", read \o <<Op("gh", "pr-list", 0, {})>>,
                    [loc EXCEPT !.existingPR = 0])
  /\ UNCHANGED <<keepV, repoV, sessV, status, upstreamBranch>>

\* 'Do you want to update this existing PR?'
PrUpdateConfirm ==
  /\ pc = "pr_update_confirm"
  /\ \E a \in Answers :
       IF a THEN Go("pr_push_existing",
                    <<Prompt("update-existing"), Op("update-gate", "accept", 0, {})>>,
                    loc)
            ELSE Go("pr_gen_confirm",
                    <<Prompt("update-existing"), Op("update-gate", "decline", 0, {})>>,
                    loc)
  /\ UNCHANGED <<keepV, repoV, sessV, status, upstreamBranch>>

ExistingPushOptionsUpstream == <<"--set-upstream">>
\* await git.push('origin', currentBranch): no options
ExistingPushOptions == <<>>

\* the push of the existing-PR path
PrPushExisting ==
  /\ pc = "pr_push_existing"
  /\ \E ok \in BOOLEAN :
       LET push == <<Op(IF ok THEN "push" ELSE "push-failed", curBranch,
                        Len(ExistingPushOptions), {})>> IN
       IF ok THEN Go("pr_new_commits", push, loc)
             ELSE PrEnd(push \o <<Throw("pr")>>)
  /\ UNCHANGED <<keepV, repoV, sessV, status, upstreamBranch>>

\* the range upstream..HEAD as git.log reads it: empty once HEAD has been pushed
\* to the branch that upstreamBranch names
RangeLog(cs, up, pushed) ==
  IF up.remote = "origin" /\ up.name \in pushed THEN <<>> ELSE cs

\* the branches this run has pushed to origin
PushedBranches == { trace[i].s : i \in { k \in DOMAIN trace : trace[k].op = "push" } }

HasNewCommitsAlways(logOk, cs, optimized, created) == TRUE
\* hasNewCommits: the range log (true when it fails) or a session flag
HasNewCommits(logOk, cs, optimized, created) ==
  (IF logOk THEN cs # <<>> ELSE TRUE) \/ optimized \/ created

\* prBranchCommits = await git.log({from: upstreamBranch, to: 'HEAD'})
PrNewCommits ==
  /\ pc = "pr_new_commits"
  /\ \E logOk \in BOOLEAN :
       LET range == RangeLog(commits, upstreamBranch,
                             PushedBranches)
           h == HasNewCommits(logOk, range, commitsOptimizedInSession,
                              commitsCreatedInSession)
           read == <<Op("log-range", IF logOk THEN "ok" ELSE "failed",
                        Len(range), {})>> IN
       IF h THEN Go("pr_upd_confirm", read, [loc EXCEPT !.hasNewCommits = h])
            ELSE PrEnd(read)
  /\ UNCHANGED <<keepV, repoV, sessV, status, upstreamBranch>>

\* 'Would you like to update the PR description with the new changes?'
PrUpdConfirm ==
  /\ pc = "pr_upd_confirm"
  /\ \E a \in Answers :
       IF a THEN Go("pr_upd_context",
                    <<Prompt("update-description"), Op("offer", "regenerate", 0, {})>>,
                    loc)
            ELSE PrEnd(<<Prompt("update-description"),
                         Op("offer", "regenerate", 0, {})>>)
  /\ UNCHANGED <<keepV, repoV, sessV, status, upstreamBranch>>

\* changes of the commit at HEAD (the base commit when the range is empty)
HeadTree == IF commits = <<>> THEN {PA} ELSE Head(commits).tree

\* let currentTitle = existingPR.title || ''; let currentDescription = '';
\* both are replaced by the answer of gh pr view when it parses, and a failure
\* leaves the title that gh pr list gave and no description
PriorContext(viewOk) == IF viewOk THEN {"title", "description"} ELSE {"title"}

\* gh pr view (title, body), the range log and git.show of HEAD; each
\* failure only leaves its part of the prompt as it was
PrUpdContext ==
  /\ pc = "pr_upd_context"
  /\ \E viewOk \in BOOLEAN, showOk \in BOOLEAN :
       Go("pr_upd_llm",
          <<Op("gh", IF viewOk THEN "pr-view" ELSE "pr-view-failed",
               loc.existingPR, {}),
            Op("git", "log-range", 0, {}), Op("git", "show", 0, {})>>,
          [loc EXCEPT
             !.priorContext = PriorContext(viewOk),
             !.recentChanges = IF showOk THEN UpdateDiff(HeadTree) ELSE {}])
  /\ UNCHANGED <<keepV, repoV, sessV, status, upstreamBranch>>

\* !updatedDescriptionData?.updatedTitle || !...?.updatedDescription
UpdateDataBad(t) ==
  ParseThrows(t) \/ ~Truthy(t.updatedTitle) \/ ~Truthy(t.updatedDescription)

\* generateCompletion with the update prompt and the parse of its answer
PrUpdLlm ==
  /\ pc = "pr_upd_llm"
  /\ LET call == Completion("title-description-update", 0) IN
     \/ PrEnd(call \o <<Throw("pr")>>)
     \/ \E t \in UpdateTexts :
          IF UpdateDataBad(t) THEN PrEnd(call)
          ELSE Go("pr_apply_confirm", call,
                  [loc EXCEPT !.priorContext = {}, !.recentChanges = {}])
  /\ UNCHANGED <<keepV, repoV, sessV, status, upstreamBranch>>

\* 'Apply the updated PR title and description?'
PrApplyConfirm ==
  /\ pc = "pr_apply_confirm"
  /\ \E a \in Answers :
       IF a THEN Go("pr_edit", <<Prompt("apply-update")>>, loc)
            ELSE PrEnd(<<Prompt("apply-update")>>)
  /\ UNCHANGED <<keepV, repoV, sessV, status, upstreamBranch>>

\* execa('gh', ['pr', 'edit', number, '--title', ..., '--body', ...])
PrEdit ==
  /\ pc = "pr_edit"
  /\ \E ok \in BOOLEAN :
       PrEnd(<<Op("gh", IF ok THEN "pr-edit" ELSE "pr-edit-failed",
                  loc.existingPR, {})>>)
  /\ UNCHANGED <<keepV, repoV, sessV, status, upstreamBranch>>

\* 'Generate PR details with AI based on your commits?'
PrGenConfirm ==
  /\ pc = "pr_gen_confirm"
  /\ \E a \in Answers :
       IF a THEN Go("pr_context", <<Prompt("generate-pr")>>, loc)
            ELSE PrEnd(<<Prompt("generate-pr")>>)
  /\ UNCHANGED <<keepV, repoV, sessV, status, upstreamBranch>>

\* git.branchLocal() and fullDiff = await git.diff([upstreamBranch, 'HEAD']);
\* a failure leaves the list or the diff empty
PrContext ==
  /\ pc = "pr_context"
  /\ \E listOk \in BOOLEAN, diffOk \in BOOLEAN :
       Go("pr_llm",
          <<Op("git", "branch-local", 0, {}), Op("git", "diff-range", 0, {})>>,
          [loc EXCEPT
             !.existingBranchNames = IF listOk THEN localBranches ELSE {},
             !.fullDiff = IF diffOk THEN PrDiff(RangeTree(commits)) ELSE {}])
  /\ UNCHANGED <<keepV, repoV, sessV, status, upstreamBranch>>

PrDataBadUnlessBranch(t) == ParseThrows(t) \/ NotAnObject(t) \/ t.branch = ""
\* !prData || typeof prData !== 'object' || !prData.suggestedBranchName ||
\* !prData.prTitle || !prData.prDescription
PrDataBad(t) ==
  \/ ParseThrows(t) \/ NotAnObject(t)
  \/ t.branch = "" \/ ~Truthy(t.title) \/ ~Truthy(t.description)

\* generateCompletion with the PR prompt and the parse of its answer; the
\* prompt's locals are not used afterwards
PrLlm ==
  /\ pc = "pr_llm"
  /\ LET call == Completion("branch-title-description", 0) IN
     \/ /\ PrEnd(call \o <<Throw("pr")>>)
        /\ prDataSeen' = prDataSeen
     \/ \E t \in PrTexts :
          /\ prDataSeen' = [t EXCEPT !.kind = IF t.valid THEN t.kind ELSE "invalid"]
          /\ IF PrDataBad(t)
             THEN PrEnd(call \o <<Throw("pr")>>)
             ELSE Go("pr_create_confirm", call,
                     [loc EXCEPT !.prData = t, !.fullDiff = {},
                                 !.existingBranchNames = {}])
  /\ UNCHANGED <<optsV, analysisSeen, repoV, sessV, status, upstreamBranch>>

\* upstreamBranch.replace('origin/', '')
TargetBranchName(b) == IF b.remote = "origin" THEN Local(b.name) ELSE b

CreatesBranchAlways(cur, up, pr) == pr = 0
\* if (currentBranch === targetBranchName && !existingPR)
CreatesBranch(cur, up, pr) == Local(cur) = TargetBranchName(up) /\ pr = 0

\* 'Create PR with these details?'
PrCreateConfirm ==
  /\ pc = "pr_create_confirm"
  /\ \E a \in Answers :
       IF ~a THEN PrEnd(<<Prompt("create-pr")>>)
       ELSE IF CreatesBranch(curBranch, upstreamBranch, loc.existingPR)
            THEN Go("pr_branch_confirm", <<Prompt("create-pr")>>, loc)
            ELSE Go("pr_push_confirm", <<Prompt("create-pr")>>,
                    [loc EXCEPT !.branchToPush = curBranch])
  /\ UNCHANGED <<keepV, repoV, sessV, status, upstreamBranch>>

\* 'Confirm creation of branch "<name>"?'
PrBranchConfirm ==
  /\ pc = "pr_branch_confirm"
  /\ \E a \in Answers :
       IF a THEN Go("pr_checkout", <<Prompt("create-branch")>>, loc)
            ELSE PrEnd(<<Prompt("create-branch")>>)
  /\ UNCHANGED <<keepV, repoV, sessV, status, upstreamBranch>>

CheckoutNeverRefused(name, branches) == FALSE
\* git checkout -b <name> refuses a name that is already a local branch
CheckoutRefused(name, branches) == name \in branches

\* await git.checkoutLocalBranch(prData.suggestedBranchName)
PrCheckout ==
  /\ pc = "pr_checkout"
  /\ LET name == loc.prData.branch IN
     \E ok \in (IF CheckoutRefused(name, localBranches) THEN {FALSE} ELSE BOOLEAN) :
       IF ok
       THEN /\ curBranch' = name
            /\ localBranches' = localBranches \cup {name}
            /\ Go("pr_push_confirm", <<Op("checkout", name, 1, {})>>,
                  [loc EXCEPT !.branchToPush = name])
       ELSE /\ UNCHANGED <<curBranch, localBranches>>
            /\ PrEnd(<<Op("checkout", name, 0, {}), Throw("pr")>>)
  /\ UNCHANGED <<keepV, index, worktree, commits, headMsg, notes, nextHash,
                 sessV, status, upstreamBranch>>

\* 'Push branch "<branchToPush>" to remote repository?'
PrPushConfirm ==
  /\ pc = "pr_push_confirm"
  /\ \E a \in Answers :
       IF a THEN Go("pr_push", <<Prompt("push")>>, loc)
            ELSE PrEnd(<<Prompt("push")>>)
  /\ UNCHANGED <<keepV, repoV, sessV, status, upstreamBranch>>

NewPushOptionsPlain(pr) == <<>>
\* existingPR ? git.push('origin', b) : git.push('origin', b, ['--set-upstream'])
NewPushOptions(pr) == IF pr # 0 THEN <<>> ELSE <<"--set-upstream">>

CreatesPrAlways(pr) == TRUE
\* Only create a new PR if one doesn't already exist: if (!existingPR)
CreatesPr(pr) == pr = 0

\* the push of the new-PR path
PrPush ==
  /\ pc = "pr_push"
  /\ \E ok \in BOOLEAN :
       LET push == <<Op(IF ok THEN "push" ELSE "push-failed", loc.branchToPush,
                        Len(NewPushOptions(loc.existingPR)), {})>> IN
       IF ~ok THEN PrEnd(push \o <<Throw("pr")>>)
       ELSE IF ~CreatesPr(loc.existingPR) THEN PrEnd(push)
       ELSE Go("pr_gh_check", push, loc)
  /\ UNCHANGED <<keepV, repoV, sessV, status, upstreamBranch>>

GhUsableIfInstalled(gh) == gh # "missing"
\* isGitHubCliAvailable && isGitHubCliConfigured
GhUsable(gh) == gh = "ready"

\* gh --version and gh auth status
PrGhCheck ==
  /\ pc = "pr_gh_check"
  /\ \E gh \in {"missing", "unauthenticated", "ready"} :
       Go("pr_gh_confirm", <<Op("gh-check", gh, 0, {})>>,
          [loc EXCEPT !.ghReady = GhUsable(gh)])
  /\ UNCHANGED <<keepV, repoV, sessV, status, upstreamBranch>>

\* 'Create GitHub PR using GitHub CLI?'
PrGhConfirm ==
  /\ pc = "pr_gh_confirm"
  /\ \E a \in Answers :
       IF a /\ loc.ghReady THEN Go("pr_gh_create", <<Prompt("gh-create")>>, loc)
       ELSE PrEnd(<<Prompt("gh-create"), Manual>>)
  /\ UNCHANGED <<keepV, repoV, sessV, status, upstreamBranch>>

\* execa('gh', ['pr', 'create', '--title', ..., '--body', ..., '--base', ...])
PrGhCreate ==
  /\ pc = "pr_gh_create"
  /\ \E ok \in BOOLEAN :
       IF ok THEN PrEnd(<<Op("gh", "pr-create", 0, {})>>)
             ELSE PrEnd(<<Op("gh", "pr-create", 0, {}), Manual>>)
  /\ UNCHANGED <<keepV, repoV, sessV, status, upstreamBranch>>

\* ------------------------------------------------------------ specification
Next ==
  \/ Ready \/ ReadStatus \/ GateBranch \/ BranchInfo \/ BranchTracking
  \/ BranchSelect
  \/ GateChanges \/ UcAnalyze \/ UcDiffs \/ UcConfirmAi \/ UcLlm
  \/ UcConfirmCommit \/ UcAdd \/ UcCommit \/ UcMark
  \/ OptLog \/ OptGate \/ OptNotes \/ OptRevList \/ OptContinue \/ OptDiffs
  \/ OptLlm \/ OptAmendConfirm \/ OptAmend \/ OptMarkHead \/ OptMarkLast
  \/ PrGate \/ PrRead \/ PrUpdateConfirm \/ PrPushExisting \/ PrNewCommits
  \/ PrUpdConfirm \/ PrUpdContext \/ PrUpdLlm \/ PrApplyConfirm \/ PrEdit
  \/ PrGenConfirm \/ PrContext \/ PrLlm \/ PrCreateConfirm \/ PrBranchConfirm
  \/ PrCheckout \/ PrPushConfirm \/ PrPush \/ PrGhCheck \/ PrGhConfirm
  \/ PrGhCreate

Spec == Init /\ [][Next]_vars

\* the handler is one chain of awaits: a call or prompt that has returned or
\* failed is followed by the next statement of the handler
LiveSpec == Spec /\ WF_vars(Next)

\* ------------------------------------------- the provenance store by itself
\* markCommitAsCreatedByTool and isCommitCreatedByTool applied in any order to
\* any hashes, from an empty refs/notes/pr-agent
Hashes == 1..MaxHash
NotesInit ==
  /\ pc = "notes" /\ exit = "" /\ yes = FALSE /\ prOpt = FALSE
  /\ index = {} /\ worktree = {} /\ commits = <<>> /\ headMsg = "base"
  /\ notes = {} /\ nextHash = 2
  /\ curBranch = "main" /\ localBranches = {"main", "feat"}
  /\ commitsOptimizedInSession = FALSE /\ commitsCreatedInSession = FALSE
  /\ status = NoStatus /\ upstreamBranch = NoBranch /\ loc = NoLoc
  /\ analysisSeen = NoAnalysis /\ prDataSeen = NoPrData
  /\ trace = <<>> /\ inFlight = {} /\ config = NoConfig
NotesFrame ==
  UNCHANGED <<pc, exit, keepV, index, worktree, commits, headMsg, nextHash,
              curBranch, localBranches, sessV, status, upstreamBranch, loc,
              inFlight, config>>
MarkCommit ==
  /\ Len(trace) < MaxNoteOps
  /\ \E h \in Hashes, ok \in BOOLEAN :
       /\ notes' = Mark(notes, h, ok)
       /\ trace' = trace \o MarkOps(h, ok)
  /\ NotesFrame
CheckCommit ==
  /\ Len(trace) < MaxNoteOps
  /\ \E h \in Hashes \cup {NoCommit.hash}, readOk \in BOOLEAN :
       trace' = Append(trace,
                       Op(IF readOk THEN "is-marked" ELSE "is-marked-unreadable",
                          IF isCommitCreatedByTool(notes, h, readOk) THEN "true"
                                                                     ELSE "false",
                          h, {}))
  /\ notes' = notes
  /\ NotesFrame
NotesNext == MarkCommit \/ CheckCommit
NotesSpec == NotesInit /\ [][NotesNext]_vars

\* ------------------------------- the load of the completion module and the
\* start of the handler
\* the command module imports services/llm.ts, whose last statements run when
\* it is loaded, before the handler is called
LoadInit ==
  /\ pc = "load" /\ exit = ""
  /\ yes \in BOOLEAN /\ prOpt \in BOOLEAN
  /\ \E ch \in InitChanges : worktree = ch[1] /\ index = ch[2]
  /\ commits \in InitCommits
  /\ headMsg = IF commits = <<>> THEN "base" ELSE "orig"
  /\ notes \in IF commits = <<>> THEN {{}} ELSE {{}, {1}}
  /\ nextHash = 2
  /\ curBranch \in {"main", "feat"} /\ localBranches = {"main", "feat"}
  /\ commitsOptimizedInSession = FALSE /\ commitsCreatedInSession = FALSE
  /\ status = NoStatus /\ upstreamBranch = NoBranch /\ loc = NoLoc
  /\ analysisSeen = NoAnalysis /\ prDataSeen = NoPrData
  /\ trace = <<>> /\ inFlight = {} /\ config = NoConfig
LoadFrame ==
  UNCHANGED <<exit, keepV, repoV, sessV, status, upstreamBranch, loc, trace,
              config>>
\* initializeClients(); ensureLogDirectory().catch(...): the promise of the
\* fs.mkdir is not awaited
ModuleLoad ==
  /\ pc = "load"
  /\ pc' = "ready"
  /\ inFlight' = inFlight \cup {"mkdir-log-dir"}
  /\ LoadFrame
\* the fs.mkdir of ensureLogDirectory settles; a rejection is only logged
LogDirSettled ==
  /\ "mkdir-log-dir" \in inFlight
  /\ inFlight' = inFlight \ {"mkdir-log-dir"}
  /\ pc' = pc
  /\ LoadFrame
LoadNext == ModuleLoad \/ LogDirSettled \/ Ready \/ ReadStatus \/ GateBranch
LoadSpec == LoadInit /\ [][LoadNext]_vars

\* ------------------------------------ LLMService (services/llm.service.ts)
\* config.llm.provider, one value standing for every name the switch does
\* not list
Providers == {"openai", "azure", "anthropic", "custom", "unsupported"}
\* message content of a response: valid JSON, text that is not JSON, nothing
Contents == {"json", "invalid json", ""}
\* what a network request ends in: a content, or a rejection
Responses == Contents \cup {"rejected"}
Request(provider, r) ==
  <<Op("request", provider, 0, {}), Op("response", r, 0, {})>>
Rejects(msg) == <<Op("rejects", msg, 0, {})>>
\* the value the promise resolves to: the parsed object or the data as it came
Resolves(form, content) == <<Op("resolves", form, 0, {content})>>

OpenAIUnparsed(content) == Resolves("raw", content)
\* try { return JSON.parse(content) } catch { throw new Error('Failed to parse
\* response from OpenAI: ...') }
OpenAIParsed(content) ==
  IF content = "invalid json"
  THEN Rejects("Failed to parse response from OpenAI")
  ELSE Resolves("parsed", content)

\* this.openai is set by the constructor exactly when the provider is openai
generateWithOpenAI(cfg, r) ==
  IF cfg.provider # "openai" THEN Rejects("OpenAI client not initialized")
  ELSE Request("openai", r) \o
       (IF r = "rejected" THEN Rejects("OpenAI API error")
        ELSE IF r = "" THEN Rejects("No content in response from OpenAI")
        ELSE OpenAIParsed(r))
\* the content is returned as it came, without a parse
generateWithAzure(cfg, r) ==
  IF ~cfg.endpoint THEN Rejects("Azure OpenAI endpoint not specified")
  ELSE Request("azure", r) \o
       (IF r = "rejected" THEN Rejects("Azure OpenAI API request failed")
        ELSE Resolves("raw", r))
\* the parse error is thrown inside the outer try and wrapped by its catch
generateWithAnthropic(cfg, r) ==
  Request("anthropic", r) \o
  (IF r \in {"rejected", "invalid json", ""}
   THEN Rejects("Anthropic API request failed")
   ELSE Resolves("parsed", r))
generateWithCustomLLM(cfg, r) ==
  IF ~cfg.endpoint THEN Rejects("Custom LLM endpoint not specified")
  ELSE Request("custom", r) \o
       (IF r = "rejected" THEN Rejects("Custom LLM API request failed")
        ELSE Resolves("raw", r))
\* switch (this.config.llm.provider)
generateChangeSummary(cfg, r) ==
  CASE cfg.provider = "openai" -> generateWithOpenAI(cfg, r)
    [] cfg.provider = "azure" -> generateWithAzure(cfg, r)
    [] cfg.provider = "anthropic" -> generateWithAnthropic(cfg, r)
    [] cfg.provider = "custom" -> generateWithCustomLLM(cfg, r)
    [] OTHER -> Rejects("Unsupported LLM provider")

LlmInit ==
  /\ pc = "llm-new" /\ exit = "" /\ yes = FALSE /\ prOpt = FALSE
  /\ index = {} /\ worktree = {} /\ commits = <<>> /\ headMsg = "base"
  /\ notes = {} /\ nextHash = 2
  /\ curBranch = "main" /\ localBranches = {"main", "feat"}
  /\ commitsOptimizedInSession = FALSE /\ commitsCreatedInSession = FALSE
  /\ status = NoStatus /\ upstreamBranch = NoBranch /\ loc = NoLoc
  /\ analysisSeen = NoAnalysis /\ prDataSeen = NoPrData
  /\ trace = <<>> /\ inFlight = {} /\ config = NoConfig
LlmFrame ==
  UNCHANGED <<exit, keepV, repoV, sessV, status, upstreamBranch, loc, inFlight>>
\* new LLMService(config)
NewService ==
  /\ pc = "llm-new"
  /\ \E p \in Providers, e \in BOOLEAN :
       config' = [provider |-> p, endpoint |-> e]
  /\ pc' = "llm-service"
  /\ trace' = trace
  /\ LlmFrame
Calls == Cardinality({ i \in DOMAIN trace : trace[i].op = "call" })
\* await service.generateChangeSummary(changes), with the response the
\* provider's endpoint gives if it is asked
GenerateChangeSummary ==
  /\ pc = "llm-service"
  /\ Calls < MaxCalls
  /\ \E r \in Responses :
       trace' = trace \o <<Op("call", config.provider, 0, {})>>
                      \o generateChangeSummary(config, r)
  /\ UNCHANGED <<pc, config>>
  /\ LlmFrame
LlmNext == NewService \/ GenerateChangeSummary
LlmSpec == LlmInit /\ [][LlmNext]_vars

\* ------------------------------------------------------------- properties
Marker == "created-by-pr-agent"
Ops(o) == { i \in DOMAIN trace : trace[i].op = o }
Has(o, x) == \E i \in Ops(o) : trace[i].s = x
\* the operations the step just taken has added to the trace
Appended == SubSeq(trace', Len(trace) + 1, Len(trace'))
\* positions of the trace that belong to the optimizer
OptStart == { i \in Ops("begin") : trace[i].s = "optimize" }
InOptimizer(i) == \E b \in OptStart : b < i
Mutating == {"llm", "amend", "notes-add", "commit", "add", "push", "checkout"}
OptimizerDid(kinds) ==
  \E i \in DOMAIN trace : InOptimizer(i) /\ trace[i].op \in kinds /\
     ~(\E e \in Ops("end") : trace[e].s = "optimize" /\ e < i)

C2_MergeCommitSkipped ==
  (OptStart # {} /\ commits # <<>> /\ Head(commits).parents > 1)
    => ~OptimizerDid({"llm", "amend", "notes-add"})
C2_Witness ==
  /\ Has("skip", "merge")
  /\ commits # <<>> /\ Head(commits).parents > 1
  /\ pc \in {"pr_gate", "done"}

\* C3: the diff embedded in a prompt that is about to be sent, at any of the
\* four call sites, contains no change of a path of ignoredFiles.
C3_NoIgnoredPathInPrompt == PromptPaths \cap ignoredFiles = {}

\* C4: the stages begin in the order branch, uncommitted, optimize, pr, each
\* at most once, and a stage begins only after every stage begun before it
\* has ended; the optimizer never starts without branch resolution and the
\* PR stage never without the optimizer.
StageIdx(st) ==
  CASE st = "branch" -> 1 [] st = "uncommitted" -> 2
    [] st = "optimize" -> 3 [] st = "pr" -> 4 [] OTHER -> 0
EndedBetween(i, j) ==
  \E k \in DOMAIN trace : i < k /\ k < j /\ trace[k] = End(trace[i].s)
C4_StagesInOrder ==
  /\ \A i \in Ops("begin"), j \in Ops("begin") :
       i < j => /\ StageIdx(trace[i].s) < StageIdx(trace[j].s)
                /\ EndedBetween(i, j)
  /\ \A j \in Ops("begin") :
       /\ StageIdx(trace[j].s) >= 2 => \E i \in Ops("begin") : i < j /\ trace[i].s = "branch"
       /\ StageIdx(trace[j].s) = 4 => \E i \in Ops("begin") : i < j /\ trace[i].s = "optimize"
C4_Witness ==
  /\ Has("begin", "branch") /\ Has("begin", "uncommitted")
  /\ Has("begin", "optimize") /\ Has("begin", "pr")
  /\ pc = "done"

\* the request for the improvement analysis, and the hash it was about
AnalysisCalls == { i \in Ops("llm") : trace[i].s = "improvement-analysis" }
NotedAfter(i, h) ==
  \E j \in Ops("notes-add") :
     j > i /\ trace[j].n = h /\ (trace[j].s = "ok" => h \in notes)

\* C5: the amend is issued exactly when the analysis said needsImprovement
\* and the amend gate was accepted; after an accepted and successful amend
\* HEAD carries the improved message and the note is written for the new
\* HEAD (it is in the notes unless git refused the write); after a decline
\* nothing is amended and the optimizer writes no note.
C5_AmendIffNeededAndAccepted ==
  /\ Ops("amend") # {} =>
       analysisSeen.ni = "true" /\ Has("amend-gate", "accept")
  /\ analysisSeen.ni = "true" =>
       pc = "opt_amend_confirm" \/ Ops("amend-gate") # {}
  /\ Ops("amend-gate") # {} => analysisSeen.ni = "true"
  /\ (Has("amend-gate", "accept") /\ pc # "opt_amend") => Ops("amend") # {}
  /\ \A i \in Ops("amend") :
       (trace[i].n # 0 /\ analysisSeen.msg = "text") =>
          /\ Head(commits).hash = trace[i].n
          /\ Head(commits).msg = "ai-improved"
          /\ headMsg = "ai-improved"
          /\ pc # "opt_mark_head" => NotedAfter(i, trace[i].n)
  /\ Has("amend-gate", "decline") =>
       Ops("amend") = {} /\ ~OptimizerDid({"notes-add"})
C5_Witness ==
  /\ \E i \in Ops("amend") : trace[i].n # 0 /\ Head(commits).hash = trace[i].n
  /\ Has("amend-gate", "accept")
  /\ Head(commits).msg = "ai-improved"
  /\ Head(commits).hash \in notes

\* C6: after a well-formed answer with needsImprovement = false the last
\* commit is the analysed one, unchanged, nothing was amended, the optimizer
\* pushed nothing, and the note is written for the analysed hash (it is in
\* the notes unless git refused the write).
C6_NoImprovementMarksOnly ==
  (analysisSeen.kind = "object" /\ analysisSeen.ni = "false") =>
    \A i \in AnalysisCalls :
      /\ Ops("amend") = {}
      /\ Head(commits).hash = trace[i].n
      /\ Head(commits).msg = (IF trace[i].n = 1 THEN "orig" ELSE "ai-commit")
      /\ headMsg = Head(commits).msg
      /\ ~OptimizerDid({"push", "push-failed", "commit", "add"})
      /\ pc # "opt_mark_last" => NotedAfter(i, trace[i].n)
C6_Witness ==
  /\ analysisSeen.kind = "object" /\ analysisSeen.ni = "false"
  /\ Has("skip", "model")
  /\ Head(commits).hash \in notes
  /\ \E i \in AnalysisCalls : trace[i].n = Head(commits).hash

\* C7: an analysis answer that is not valid JSON, is not a JSON object or
\* lacks needsImprovement makes the optimizer fail: an error is thrown,
\* nothing is amended, no note is written and no session flag is set.
Malformed(t) ==
  t.kind \in {"invalid", "null", "array"} \/ (t.kind = "object" /\ t.ni = "absent")
C7_MalformedAnalysisFails ==
  Malformed(analysisSeen) =>
    /\ Has("throw", "optimize")
    /\ pc \in {"pr_gate", "pr_read", "done"} \/ Has("begin", "pr")
    /\ Ops("amend") = {}
    /\ ~OptimizerDid({"notes-add"})
    /\ ~commitsOptimizedInSession

\* C8: every amend uses an improved message that the answer contained; an
\* answer with needsImprovement = true and no improvedCommitMessage leads to
\* no amend.
C8_NoFabricatedMessage ==
  /\ \A i \in Ops("amend") :
       trace[i].n # 0 => analysisSeen.msg = "text" /\ trace[i].s = "ai-improved"
  /\ \A i \in Ops("commit") : trace[i].n # 0 => trace[i].s = "ai-commit"
  /\ headMsg \in {"base", "orig", "ai-commit", "ai-improved"}

\* C9: the commit an amend produces has the tree and the parents of the
\* commit it replaces; only the message differs.
C9_AmendKeepsTree ==
  [][ (pc = "opt_amend" /\ commits' # commits)
      => /\ Head(commits').tree = Head(commits).tree
         /\ Head(commits').parents = Head(commits).parents
         /\ Tail(commits') = Tail(commits)
    ]_vars

\* C10: once the update of the existing PR is confirmed, every push of the
\* run goes to the current branch without --set-upstream, the push is
\* issued, and no branch is created or checked out.
Pushes == Ops("push") \cup Ops("push-failed")
C10_ExistingPrPushesSameBranch ==
  Has("update-gate", "accept") =>
    /\ \A i \in Pushes : trace[i].s = curBranch /\ trace[i].n = 0
    /\ pc # "pr_push_existing" => Pushes # {}
    /\ Ops("checkout") = {}
    /\ localBranches = {"main", "feat"}
C10_Witness ==
  /\ Has("update-gate", "accept")
  /\ \E i \in Ops("push") : trace[i].s = curBranch /\ trace[i].n = 0
  /\ pc = "done"

\* C11: on the new-PR path a step creates or checks out a branch only when
\* the current branch is the name of the resolved upstream branch, and the
\* branch it creates is the suggested one; when the current branch is another
\* one the branch prompt is never reached; every push pushes the branch that
\* is current, which is also the head of the PR.
C11_BranchOnlyWhenOnTarget ==
  [][ /\ (localBranches' # localBranches \/ curBranch' # curBranch) =>
           /\ pc = "pr_checkout" /\ loc.existingPR = 0
           /\ curBranch = upstreamBranch.name
           /\ curBranch' = loc.prData.branch
           /\ localBranches' = localBranches \cup {loc.prData.branch}
      /\ (pc = "pr_create_confirm" /\ loc.existingPR = 0
            /\ curBranch # upstreamBranch.name) =>
           /\ pc' # "pr_branch_confirm"
           /\ pc' = "pr_push_confirm" => loc'.branchToPush = curBranch
      /\ (pc = "pr_push" /\ loc.existingPR = 0) =>
           /\ loc.branchToPush = curBranch
           /\ \A i \in DOMAIN Appended :
                Appended[i].op \in {"push", "push-failed"} =>
                  Appended[i].s = curBranch
           /\ pc' = "pr_gh_check" => loc'.branchToPush = curBranch'
    ]_vars
C11_Witness ==
  /\ \E i \in Ops("checkout") : trace[i].n = 1 /\ trace[i].s = curBranch
  /\ \E i \in Ops("push") : trace[i].s = curBranch /\ trace[i].n = 1
  /\ curBranch \notin {"main", "feat"}
  /\ upstreamBranch.name = "main"

\* C12: when the check of the host CLI found it missing or not authenticated,
\* the PR step raises no error afterwards, neither gh pr create nor gh pr
\* edit is invoked in the run, and the step ends with the manual
\* instructions printed.
GhUnavailable == { i \in Ops("gh-check") : trace[i].s \in {"missing", "unauthenticated"} }
C12_HostUnavailableDegrades ==
  GhUnavailable # {} =>
    /\ \A i \in Ops("gh") : trace[i].s \notin {"pr-create", "pr-edit", "pr-edit-failed"}
    /\ \A g \in GhUnavailable : \A t \in Ops("throw") : t < g
    /\ pc \in {"pr_gh_confirm", "done"}
    /\ pc = "done" => exit = "complete" /\ \E g \in GhUnavailable : \E m \in Ops("manual") : m > g
C12_Witness ==
  /\ Has("gh-check", "unauthenticated")
  /\ Ops("manual") # {}
  /\ Ops("push") # {}
  /\ pc = "done"

\* C13: when the answer to the branch/title/description request is not valid
\* JSON or lacks suggestedBranchName, prTitle or prDescription, the PR step
\* has ended with an error, and the run holds no checkout, no push, no gh pr
\* create, no manual instructions and no new branch.
PrAnswerBad(t) ==
  \/ t.kind \in {"invalid", "number"}
  \/ t.kind = "object" /\ (t.branch = "" \/ t.title # "text" \/ t.description # "text")
C13_BadPrAnswerAborts ==
  PrAnswerBad(prDataSeen) =>
    /\ pc = "done" /\ exit = "complete"
    /\ \E c \in Ops("llm") : trace[c].s = "branch-title-description" /\
         \E t \in Ops("throw") : t > c /\ trace[t].s = "pr"
    /\ Ops("checkout") = {} /\ Pushes = {} /\ Ops("manual") = {}
    /\ \A i \in Ops("gh") : trace[i].s # "pr-create"
    /\ localBranches = {"main", "feat"}
C13_Witness ==
  /\ prDataSeen.kind = "object" /\ prDataSeen.title = "absent"
  /\ prDataSeen.branch = "ai-branch"
  /\ pc = "done" /\ Has("throw", "pr")

\* C14: once the user has selected a remote branch and declined its
\* confirmation, the run is over as a cancellation with no upstream branch
\* resolved; no stage after the branch resolution has begun, the trace holds
\* no git mutation, no completion request and no host call, and the
\* repository and the session flags are as the run found them.
HostOps == {"gh", "gh-check", "manual"}
C14_DeclinedSelectionCancels ==
  Has("target-gate", "decline") =>
    /\ Has("select", "target")
    /\ pc = "done" /\ exit = "exit0"
    /\ upstreamBranch = NoBranch
    /\ \A i \in DOMAIN trace : trace[i].op \notin Mutating \cup HostOps
    /\ \A i \in Ops("begin") : trace[i].s = "branch"
    /\ nextHash = 2 /\ localBranches = {"main", "feat"}
    /\ status.modified = StatusModified(index, worktree)
    /\ ~commitsOptimizedInSession /\ ~commitsCreatedInSession
C14_Witness ==
  /\ Has("target-gate", "decline")
  /\ Has("select", "target")
  /\ pc = "done" /\ exit = "exit0"

\* C15: when the current branch cannot be read, the remote branches cannot
\* be listed or the filtered list is empty, the branch resolution has thrown
\* and the run is over: no upstream branch is resolved, no later stage has
\* begun, the trace holds no git mutation, completion request or host call,
\* and the repository and the session flags are as the run found them.
ResolutionErrors ==
  { "Could not determine current branch", "Could not retrieve remote branches",
    "No remote branches found" }
C15_ResolutionFailureAborts ==
  (\E e \in Ops("error") : trace[e].s \in ResolutionErrors) =>
    /\ Has("throw", "branch")
    /\ pc = "done" /\ exit = "return"
    /\ upstreamBranch = NoBranch
    /\ \A i \in Ops("begin") : trace[i].s = "branch"
    /\ \A i \in DOMAIN trace : trace[i].op \notin Mutating \cup HostOps
    /\ nextHash = 2 /\ localBranches = {"main", "feat"}
    /\ status.modified = StatusModified(index, worktree)
    /\ ~commitsOptimizedInSession /\ ~commitsCreatedInSession
C15_Witness ==
  /\ Has("error", "No remote branches found")
  /\ Has("throw", "branch")
  /\ pc = "done" /\ exit = "return"

\* C16: a step in which the write of the provenance note fails raises
\* nothing and leaves the notes as they were; the commit stage still sets
\* commitsCreatedInSession and hands over to the optimizer, and the
\* optimizer still sets commitsOptimizedInSession and ends, after which the
\* handler goes on to the PR gate (or is complete without --pr).
MarkFailsNow ==
  \E i \in DOMAIN Appended : Appended[i].op = "notes-add" /\ Appended[i].s = "failed"
C16_MarkNeverRaises ==
  [][ MarkFailsNow =>
        /\ \A i \in DOMAIN Appended : Appended[i].op \notin {"throw", "error"}
        /\ notes' = notes
        /\ pc \in {"uc_mark", "opt_mark_head", "opt_mark_last"}
        /\ pc = "uc_mark" =>
             /\ commitsCreatedInSession'
             /\ pc' = "opt_log"
             /\ \E i \in DOMAIN Appended : Appended[i] = Begin("optimize")
        /\ pc # "uc_mark" =>
             /\ commitsOptimizedInSession'
             /\ \E i \in DOMAIN Appended : Appended[i] = End("optimize")
             /\ IF prOpt THEN pc' = "pr_gate"
                         ELSE pc' = "done" /\ exit' = "complete"
    ]_vars
C16_Witness ==
  /\ commitsCreatedInSession
  /\ \E i \in Ops("notes-add") :
       /\ trace[i].s = "failed" /\ trace[i].n \notin notes
       /\ \E c \in Ops("commit") : c < i /\ trace[c].n = trace[i].n
       /\ \E b \in OptStart : i < b
  /\ Has("begin", "pr")

\* C17: in the provenance store, after any sequence of mark and isMarked
\* operations, isMarked answers true for every hash whose mark was written
\* and false for every hash whose mark was never written, each answer given
\* in the sequence was the right one at its time, and a mark of a hash that
\* is already marked leaves the store as it was.
MarkedBefore(n, h) ==
  \E i \in 1..n : trace[i].op = "notes-add" /\ trace[i].s = "ok" /\ trace[i].n = h
C17_ProvenanceRoundTrip ==
  [][ /\ \A h \in Hashes :
           isCommitCreatedByTool(notes', h, TRUE) <=> MarkedBefore(Len(trace), h)'
      /\ \A i \in DOMAIN Appended :
           Appended[i].op = "is-marked" =>
              (Appended[i].s = "true" <=> MarkedBefore(Len(trace), Appended[i].n))
      /\ \A i \in DOMAIN Appended :
           (Appended[i].op = "notes-add" /\ Appended[i].n \in notes) =>
              notes' = notes
    ]_vars
C17_Witness ==
  /\ pc = "notes"
  /\ \E i, j, k \in DOMAIN trace :
       /\ i < j /\ j < k
       /\ trace[i].op = "notes-add" /\ trace[i].s = "ok"
       /\ trace[j].op = "notes-add" /\ trace[j].n = trace[i].n
       /\ trace[k].op = "is-marked" /\ trace[k].n = trace[i].n /\ trace[k].s = "true"
  /\ \E h \in Hashes : h \notin notes

\* C18: within a run each completion call site is requested at most once,
\* gh pr create and gh pr edit are invoked at most once, and a failed git or
\* host operation is followed by no operation of its kind; the one
\* operation a later stage issues again on its own is the provenance note:
\* after a note write failed, the stage that issued it writes no other note.
Family(o) ==
  CASE o.op = "push-failed" -> "push"
    [] o.op = "gh" /\ o.s = "pr-edit-failed" -> "pr-edit"
    [] o.op = "gh" /\ o.s = "pr-view-failed" -> "pr-view"
    [] o.op = "gh" -> o.s
    [] OTHER -> o.op
FailedOp(o) ==
  \/ o.op \in {"add", "commit"} /\ o.s = "failed"
  \/ o.op \in {"amend", "checkout"} /\ o.n = 0
  \/ o.op = "push-failed"
  \/ o.op = "gh" /\ o.s \in {"pr-edit-failed", "pr-view-failed"}
StageOf(i) ==
  Cardinality({ b \in Ops("begin") : b < i })
RangeReads == Ops("log-range")
Offered == Ops("offer") # {}
C19_RegenerationOffered ==
  (Has("update-gate", "accept") /\ Ops("push") # {} /\ RangeReads # {}
     /\ pc # "pr_upd_confirm") =>
    /\ (commitsOptimizedInSession \/ commitsCreatedInSession) => Offered
    /\ (\A r \in RangeReads : trace[r].s = "ok" /\ trace[r].n = 0)
         /\ ~commitsOptimizedInSession /\ ~commitsCreatedInSession
       => ~Offered
    /\ \A o \in Ops("offer") : \E r \in RangeReads : r < o
C19_Witness ==
  /\ Has("update-gate", "accept") /\ Ops("push") # {}
  /\ \E r \in RangeReads : trace[r].s = "ok" /\ trace[r].n = 0
  /\ commitsCreatedInSession
  /\ Offered

\* C20: when the optimizer is about to send its prompt, every path the run
\* has met (a modified path of the status or a path of the last commit) is
\* kept by the filter of the uncommitted-changes diff exactly when it is
\* kept by the exclude pathspecs of the range and single-commit diffs.
C20_SameExclusion ==
  pc = "opt_llm" =>
    \A p \in status.modified \cup loc.lastCommit.tree :
      (p \in ModifiedFiles({p})) <=> (p \in OptimizeDiff({p}))

\* C21: whatever the model answered, a checkout that creates a branch
\* creates the suggested name, and that name was not a local branch (the
\* list given to the model as exclusions) before the step.
C21_CreatedBranchIsNew ==
  [][ \A i \in DOMAIN Appended :
        (Appended[i].op = "checkout" /\ Appended[i].n = 1) =>
          /\ Appended[i].s = prDataSeen.branch
          /\ Appended[i].s \notin localBranches
          /\ localBranches' = localBranches \cup {Appended[i].s}
          /\ curBranch' = Appended[i].s
    ]_vars
C21_Witness ==
  /\ prDataSeen.branch \in localBranches
  /\ \E i \in Ops("checkout") : trace[i].s = prDataSeen.branch /\ trace[i].n = 0
  /\ localBranches = {"main", "feat"}
  /\ Has("throw", "pr")


\* C22: the completion provider is never called by the commit, optimize or
\* new-PR step with a prompt whose diff context is empty: when the diff
\* collection gave nothing the step is left before the call.
C22_NoEmptyDiffContext ==
  pc \in {"uc_llm", "opt_llm", "pr_llm"} => PromptPaths # {}


\* C24: once the gate 'commit your uncommitted changes?' or a confirmation
\* of the uncommitted-changes stage (analyze, send to AI, proceed with commit)
\* was declined, the run has ended with that cancellation as its last
\* operation: no commit was created and neither the optimizer nor the PR
\* stage was started.
UncommittedQuestions == {"commit-changes", "analyze", "send-to-ai", "proceed-commit"}
C24_DeclineIsHardCancel ==
  \A i \in Ops("cancel") :
    trace[i].s \in UncommittedQuestions =>
      /\ pc = "done"
      /\ exit = (IF trace[i].s = "commit-changes" THEN "return" ELSE "exit0")
      /\ i = Len(trace)
      /\ Ops("commit") = {} /\ Ops("add") = {}
      /\ ~commitsCreatedInSession
      /\ ~Has("begin", "optimize") /\ ~Has("begin", "pr")
      /\ Ops("llm") = {} \/ trace[i].s = "proceed-commit"
C24_Witness ==
  /\ Has("cancel", "proceed-commit")
  /\ Has("llm", "commit-message")
  /\ prOpt /\ index \cup worktree # {}


\* C23: after the update of an open PR was declined the run is on the new-PR
\* path: a branch it pushes is one it has just created (not the branch of
\* the existing PR), and a run that ends after such a push has gone on to
\* the creation of a new PR (the host CLI was checked for it).
C23_DeclinedUpdateMakesNewPr ==
  Has("update-gate", "decline") =>
    \A i \in Ops("push") :
      /\ \E c \in Ops("checkout") :
           c < i /\ trace[c].n = 1 /\ trace[c].s = trace[i].s
      /\ pc = "done" => Ops("gh-check") # {}


\* C25: with --yes the run never waits for input and never takes a
\* cancellation branch: no prompt is put to the user (the select of a target
\* branch included) and no question is recorded as declined.
C25_YesNeverWaits ==
  yes =>
    /\ Ops("select") = {}
    /\ Ops("cancel") = {}
    /\ ~Has("update-gate", "decline")
    /\ \A i \in Ops("error") : trace[i].s # "No branch selected"


C27_StatusReadAfterBranch ==
  status.read => Has("end", "branch")


\* C28: isCommitCreatedByTool answers false whenever the note cannot be read
\* (empty hash, git error, no note), and an optimizer whose read of the note
\* gave nothing goes on to the parent check with the same commit: it neither
\* fails nor skips.
C28_UnreadableMeansUnmarked ==
  [][ /\ \A h \in 0..MaxHash, readOk \in BOOLEAN :
           (h = NoCommit.hash \/ ~readOk \/ h \notin notes) =>
             ~isCommitCreatedByTool(notes, h, readOk)
      /\ \A i \in DOMAIN Appended :
           Appended[i].op = "notes-show" =>
             /\ Appended[i].n \notin notes => Appended[i].s = ""
             /\ Appended[i].s = "" =>
                  /\ pc' = "opt_revlist" /\ exit' = exit
                  /\ Len(Appended) = 1 /\ loc' = loc
    ]_vars
C28_Witness ==
  /\ pc = "opt_revlist"
  /\ loc.lastCommit.hash \in notes
  /\ trace # <<>>
  /\ trace[Len(trace)].op = "notes-show" /\ trace[Len(trace)].s = ""


\* C29: when fetching the current title and body of the existing PR has
\* failed, regeneration goes on to the completion call, and the prompt of
\* that call holds no prior title and no prior description.
C29_NoPriorContextAfterFailedView ==
  (trace # <<>> /\ trace[Len(trace)] = Op("gh", "pr-view-failed", PrNumber, {})) =>
    /\ pc = "pr_upd_llm"
    /\ loc.priorContext = {}


\* C30: nothing runs in the background: no operation is left in flight
\* without having been awaited, the work started by the load of the
\* completion module included, and each awaited operation of the handler
\* (a prompt, a git call) is performed while no other operation is in flight.
C30_NothingInBackground ==
  [][ /\ inFlight' = {}
      /\ (pc \in {"ready", "status", "gate_branch"} /\ pc' # pc) => inFlight = {}
    ]_vars


\* C31: a call of generateChangeSummary issues a request only to the
\* configured provider; with an unsupported provider, or with azure or custom
\* and no endpoint, it rejects without any request; and an OpenAI response
\* that is not JSON rejects with 'Failed to parse response from OpenAI' and
\* resolves to nothing.
Requests(ops) == { i \in DOMAIN ops : ops[i].op = "request" }
C31_FailsBeforeRequest ==
  [][ (pc = "llm-service" /\ Appended # <<>>) =>
        LET last == Appended[Len(Appended)]
            req == Requests(Appended)
            res == { i \in DOMAIN Appended : Appended[i].op = "response" }
        IN
        /\ \A i \in req : Appended[i].s = config.provider
        /\ Cardinality(req) <= 1
        /\ config.provider = "unsupported" =>
             req = {} /\ <<last>> = Rejects("Unsupported LLM provider")
        /\ (config.provider \in {"azure", "custom"} /\ ~config.endpoint) =>
             req = {} /\ last.op = "rejects"
        /\ (config.provider = "openai" /\
            \E i \in res : Appended[i].s = "invalid json") =>
             <<last>> = Rejects("Failed to parse response from OpenAI")
    ]_vars
C31_Witness ==
  /\ pc = "llm-service" /\ config.provider = "openai"
  /\ \E i \in DOMAIN trace :
       /\ i < Len(trace)
       /\ trace[i] = Op("response", "invalid json", 0, {})
       /\ <<trace[i + 1]>> = Rejects("Failed to parse response from OpenAI")
  /\ \E i \in DOMAIN trace : trace[i].op = "resolves"


\* C32: a run issues at most one mutation of the PR host: gh pr create and
\* gh pr edit together are invoked at most once, gh pr create only when the
\* lookup found no open PR for the current branch, and gh pr edit only with
\* the number that the lookup found.
HostMutations ==
  { i \in Ops("gh") : trace[i].s \in {"pr-create", "pr-edit", "pr-edit-failed"} }
Lookups == { i \in Ops("gh") : trace[i].s = "pr-list" }
C33_CreateOnlyAfterPush ==
  /\ \A i \in Ops("gh") :
       trace[i].s = "pr-create" =>
         \E j \in Ops("push") :
           /\ j < i
           /\ trace[j].s = curBranch
           /\ trace[j].n = Len(<<"--set-upstream">>)
  /\ Ops("push-failed") # {} =>
       /\ ~Has("gh", "pr-create") /\ Ops("gh-check") = {}
       /\ Ops("push") = {}
C33_Witness ==
  /\ Has("gh", "pr-create")
  /\ \E c \in Ops("checkout") : trace[c].n = 1 /\ trace[c].s = curBranch
  /\ \E j \in Ops("push") : trace[j].s = curBranch


\* C34: a step of the optimizer that fails (its error is thrown) or that the
\* user declines does not end the run early: with the PR option the run is
\* next at the gate of the PR stage, still running and with the upstream
\* branch that was resolved; without it the run completes normally.
OptimizerGaveUp ==
  \E i \in DOMAIN Appended : Appended[i] \in {Throw("optimize"), Skip("user")}
C34_OptimizerFailureIsSoft ==
  [][ OptimizerGaveUp =>
        /\ upstreamBranch # NoBranch /\ upstreamBranch' = upstreamBranch
        /\ Appended[Len(Appended)] = End("optimize")
        /\ IF prOpt THEN pc' = "pr_gate" /\ exit' = ""
                    ELSE pc' = "done" /\ exit' = "complete"
    ]_vars
C34_Witness ==
  /\ pc = "pr_gate" /\ prOpt
  /\ \E i \in Ops("amend") : trace[i].n = 0 /\ trace[i + 1] = Throw("optimize")
  /\ upstreamBranch # NoBranch


\* the commits that the uncommitted-changes stage created and marked at once
MarkedCreations ==
  { i \in Ops("commit") :
      /\ trace[i].s = "ai-commit" /\ i < Len(trace)
      /\ trace[i + 1] = NotesAdd(trace[i].n, TRUE) }
AnalysedLater(i) ==
  \E j \in Ops("llm") :
    j > i /\ trace[j].s = "improvement-analysis" /\ trace[j].n = trace[i].n
AmendedLater(i) == \E j \in Ops("amend") : j > i
ReadsOf(i) == { k \in Ops("notes-show") : k > i /\ trace[k].n = trace[i].n }
AmendSucceeded == \E i \in Ops("amend") : trace[i].n # 0
CommitCreated == Has("commit", "ai-commit")
FlagsAsRecorded ==
  /\ commitsOptimizedInSession <=>
       \/ Has("skip", "model")
       \/ AmendSucceeded /\ pc # "opt_mark_head"
  /\ commitsCreatedInSession <=> (CommitCreated /\ pc # "uc_mark")
  /\ Has("skip", "model") => analysisSeen.valid /\ ~NeedsImprovement(analysisSeen)
Creations == { i \in Ops("commit") : trace[i].s = "ai-commit" }
C38_CommitsEveryChange ==
  /\ \A i \in Creations :
       /\ status.modified \subseteq trace[i].paths
       /\ trace[i].paths \ status.modified \subseteq Untracked
       /\ index = {} /\ worktree = {}
       /\ \E j \in Ops("add") : j < i /\ trace[j].paths = trace[i].paths
  /\ (status.read /\ ModifiedFiles(status.modified) = {}) =>
       /\ ~Has("llm", "commit-message")
       /\ Creations = {}
C38_Witness ==
  /\ \E i \in Creations :
       /\ trace[i].paths \cap Untracked # {}
       /\ trace[i].paths \cap ignoredFiles # {}
       /\ \E j \in Ops("llm") :
            j < i /\ trace[j].s = "commit-message"
  /\ index = {} /\ worktree = {}


\* C39: without the pr option the run ends when the optimizer has ended: the
\* PR stage is not begun, and the run holds no lookup of an existing PR, no
\* branch creation, no push and no call of the host CLI.
PrStageOps ==
  {"gh", "gh-check", "manual", "checkout", "push", "push-failed",
   "update-gate", "offer", "log-range"}
PcOrder ==
  <<"ready", "status", "gate_branch", "br_info", "br_track", "br_remotes",
    "gate_changes", "uc_analyze", "uc_diffs", "uc_confirm_ai", "uc_llm",
    "uc_confirm_commit", "uc_add", "uc_commit", "uc_mark",
    "opt_log", "opt_gate", "opt_notes", "opt_revlist", "opt_continue",
    "opt_diffs", "opt_llm", "opt_amend_confirm", "opt_amend", "opt_mark_head",
    "opt_mark_last",
    "pr_gate", "pr_read", "pr_update_confirm", "pr_push_existing",
    "pr_new_commits", "pr_upd_confirm", "pr_upd_context", "pr_upd_llm",
    "pr_apply_confirm", "pr_edit", "pr_gen_confirm", "pr_context", "pr_llm",
    "pr_create_confirm", "pr_branch_confirm", "pr_checkout",
    "pr_push_confirm", "pr_push", "pr_gh_check", "pr_gh_confirm",
    "pr_gh_create", "done">>
Position(p) == CHOOSE i \in DOMAIN PcOrder : PcOrder[i] = p
StageOrder == <<"branch", "uncommitted", "optimize", "pr">>
Begins(stage) == {i \in DOMAIN trace : trace[i] = Begin(stage)}
StagesNeverReentered ==
  \A j, k \in DOMAIN StageOrder :
    /\ Cardinality(Begins(StageOrder[j])) <= 1
    /\ j < k => \A a \in Begins(StageOrder[j]), b \in Begins(StageOrder[k]) :
                  a < b
Terminal == pc = "done" /\ exit \in {"complete", "return", "exit0"}
C40_EveryRunTerminates ==
  /\ [][Position(pc') > Position(pc)]_vars
  /\ [](pc \in {PcOrder[i] : i \in DOMAIN PcOrder})
  /\ [](StagesNeverReentered)
  /\ [](pc = "done" => Terminal)
  /\ <>Terminal
C40_Witness ==
  /\ Terminal /\ exit = "complete"
  /\ Cardinality(Begins("uncommitted")) = 1
  /\ Cardinality(Begins("optimize")) = 1
  /\ Cardinality(Begins("pr")) = 1
  /\ Ops("gh") # {}

====
